---- MODULE Spec2Model ----
(***************************************************************************)
(* Page-level OCR orchestration of cyysky/PDF_OCR: ocr_vision.py and       *)
(* ocr_vision_for_graph.py (call_ocr_api, process_document, main).         *)
(*                                                                         *)
(* One behaviour is any number of invocations ("runs") of main() over a    *)
(* fixed listing of document folders.  Within a run the main thread walks  *)
(* the listing; for each document it submits one task per page to a        *)
(* ThreadPoolExecutor, collects the results in index order, and writes the *)
(* joined text.  Page indices are 1..P here (0..P-1 in the code).          *)
(***************************************************************************)
EXTENDS Naturals, Sequences, FiniteSets, TLC

\* ---------------------------------------------------------------- bounds
\* number of document folders in INPUT_DIR
NumDocs == 2
\* largest number of page images in one folder
MaxPages == 2

\* ------------------------------------------------------ program constants
\* call_ocr_api(image_b64, max_retries=3, delay=5)
max_retries == 3
\* ThreadPoolExecutor(max_workers=5) in ocr_vision.py
MaxWorkersVision == 5
\* ThreadPoolExecutor(max_workers=1) in ocr_vision_for_graph.py
MaxWorkersGraph == 1
\* ThreadPoolExecutor(max_workers=5) in openwebui_ocr_server.py
MaxWorkersServer == 5

PoolSizes == {MaxWorkersVision, MaxWorkersGraph, MaxWorkersServer}

Docs == 1..NumDocs

VARIABLES
    max_workers,  \* pool size of the script that is running
    pages,        \* pages[d]: number of page images in folder d
    sink,         \* sink[d]: the file OUTPUT_DIR/d.txt, [exists, content]
    pc,           \* position of the main thread
    cur,          \* index in the listing of the document main() is at
    task,         \* task[i]: future of page i of the current document
    texts,        \* the list `texts` of process_document
    next,         \* index of the future the result iterator waits for
    exc,          \* page whose RuntimeError reached process_document, or 0
    status,       \* status[d]: what this run did with document d
    prev,         \* the documents that ended failed in the previous run
    ocr_calls,    \* requests.post calls of the current process_document call
    flaky,        \* pages whose requests the endpoint may fail
    script,       \* what the endpoint answers, when that is fixed beforehand
    s_pc,         \* server: position of the handler of PUT /process
    s_len,        \* server: len(content) of the request body
    s_ct,         \* server: Content-Type header of the request, lower case
    s_n,          \* server: number of images convert_from_bytes gives
    s_task,       \* server: s_task[p]: future of process_image for page p
    s_taken,      \* server: pages whose future as_completed has yielded
    documents,    \* server: the list `documents` of process_pdf
    s_err,        \* server: page named by the HTTPException of line 173, or 0
    response,     \* server: what the client receives
    s_calls,      \* server: requests.post calls made for the request
    b_pc,         \* process_pdfs: position of process_all_pdfs
    b_in,         \* process_pdfs: the PDFs in input_docs
    b_out,        \* process_pdfs: the PDFs in output
    b_txt,        \* process_pdfs: b_txt[d]: the text file of PDF d in output
    pdf_files,    \* process_pdfs: the list pdf_files
    b_i,          \* process_pdfs: index in pdf_files of the PDF in work
    page_num,     \* process_pdfs: page pdf_to_images_and_ocr is at
    all_text,     \* process_pdfs: the list all_text
    b_calls,      \* process_pdfs: the PDFs this run has sent OCR requests for
    f_pc,         \* copy_files: position of copy_files
    recursive,    \* copy_files: the argument `recursive`
    f_in,         \* copy_files: the input folder, f_in[d]: the file of directory d
    f_i,          \* copy_files: the directory os.walk or iterdir is at
    f_out,        \* copy_files: the output folder, file name -> file
    f_out0,       \* copy_files: the output folder as this run found it
    f_later,      \* copy_files: a run on these folders has ended before
    copied_count,        \* copy_files: the counter copied_count
    conflicts_resolved,  \* copy_files: the counter conflicts_resolved
    skipped_duplicates   \* copy_files: the counter skipped_duplicates

\* the state of the server
srv == <<s_pc, s_len, s_ct, s_n, s_task, s_taken, documents, s_err,
         response, s_calls>>

\* the variables of process_pdfs.py; PDF d of input_docs has pages[d] pages
bat == <<b_pc, b_in, b_out, b_txt, pdf_files, b_i, page_num, all_text,
         b_calls>>

\* the variables of copy_files.py
fil == <<f_pc, recursive, f_in, f_i, f_out, f_out0, f_later, copied_count,
         conflicts_resolved, skipped_duplicates>>

vars == <<max_workers, pages, sink, pc, cur, task, texts, next, exc,
          status, prev, ocr_calls, flaky, script, srv, bat, fil>>

\* ------------------------------------------------------------ OCR endpoint
\* what one requests.post can end in: an exception of requests.post, of
\* raise_for_status, of the payload access, or a payload whose content is
\* null or a text
Errors == {"transport", "status", "malformed"}
Outcomes == Errors \cup {"null", "text"}

Letters == <<"A", "B", "C", "D", "E", "F", "G", "H">>

\* the text the endpoint reads from the image of page i
PageText(i) == Letters[i]

\* what call_ocr_api does after a request
Steps == {"sleep", "return_text", "return_none"}

\* mutant: the loop counts one attempt too many
AfterAttemptOffByOne(attempt, outcome) ==
    IF outcome = "text" THEN "return_text"
    ELSE IF outcome = "null" THEN "return_none"
    ELSE IF attempt <= max_retries THEN "sleep"
    ELSE "return_none"

\* mutant: except requests.RequestException, an error in reading the payload
\* leaves call_ocr_api as an exception
AfterAttemptNarrowExcept(attempt, outcome) ==
    IF outcome = "text" THEN "return_text"
    ELSE IF outcome = "null" THEN "return_none"
    ELSE IF outcome = "malformed" THEN "raise"
    ELSE IF attempt < max_retries THEN "sleep"
    ELSE "return_none"

\* one iteration of the loop of call_ocr_api: what follows the outcome of
\* request number `attempt`
AfterAttempt(attempt, outcome) ==
    IF outcome = "text" THEN "return_text"
    ELSE IF outcome = "null" THEN "return_none"
    ELSE IF attempt < max_retries THEN "sleep"
    ELSE "return_none"

\* mutant: ocr_page without the check for None
OcrPageEndNoRaise(ret) == "done"

\* ocr_page after call_ocr_api returned: None raises RuntimeError, a text is
\* stored and the task ends normally
OcrPageEnd(ret) == IF ret = "none" THEN "raised" ELSE "done"

\* "\n\n".join(texts)
RECURSIVE Join(_)
Join(s) ==
    IF Len(s) = 0 THEN ""
    ELSE IF Len(s) = 1 THEN s[1]
    ELSE s[1] \o "\n\n" \o Join(Tail(s))

\* call_ocr_api run on its own against the answers plan[1], plan[2], ... of
\* the endpoint, from request number `attempt` on: what it returns
RECURSIVE CallOcrApi(_, _)
CallOcrApi(plan, attempt) ==
    LET r == AfterAttempt(attempt, plan[attempt])
    IN  IF r = "sleep" THEN CallOcrApi(plan, attempt + 1) ELSE r

\* ------------------------------------------------------------------ state
\* the endpoint answers as it likes
NoScript == [on |-> FALSE, plan |-> <<>>]

\* the answers to the requests of one page, fixed beforehand: errors up to
\* the first answer that is no error or up to the last attempt
Plans ==
    {<<"text">>, <<"null">>,
     <<"transport", "text">>, <<"transport", "null">>,
     <<"transport", "malformed", "text">>, <<"transport", "malformed", "null">>,
     <<"transport", "malformed", "status">>}

NoFile == [exists |-> FALSE, content |-> ""]

\* a future: st is its state, ret what call_ocr_api returned to ocr_page,
\* attempts and sleeps count the requests and the time.sleep calls
NewTask == [st |-> "unsubmitted", ret |-> "", attempts |-> 0, sleeps |-> 0]

Pending == {i \in DOMAIN task : task[i].st = "pending"}
InFlight == {i \in DOMAIN task : task[i].st \in {"request", "sleeping"}}

\* the pages of the current document whose ocr_page has raised
RaisedPages == {i \in DOMAIN task : task[i].st = "raised"}

\* mutant: an empty output file does not count as processed
OutputExistsNonEmpty(d) == sink[d].exists /\ sink[d].content # ""

\* mutant: the check for an existing output is missing
OutputExistsNever(d) == FALSE

\* os.path.exists(output_file)
OutputExists(d) == sink[d].exists

\* mutant: a thread per submitted task
WorkerFreeAlways == TRUE

\* a worker thread is free to take a work item
WorkerFree == Cardinality(InFlight) < max_workers

\* mutant: a worker takes any queued item
QueueAny(i) == i \in Pending

\* the work queue is first in, first out
QueueHead(i) == i \in Pending /\ \A j \in Pending : i <= j

\* process_pdfs.py is not running and has touched nothing
BatchOff ==
    /\ b_pc = "off"
    /\ b_in = {}
    /\ b_out = {}
    /\ b_txt = [d \in Docs |-> NoFile]
    /\ pdf_files = <<>>
    /\ b_i = 1
    /\ page_num = 1
    /\ all_text = <<>>
    /\ b_calls = {}

\* copy_files.py is not running and has touched nothing
FilesOff ==
    /\ f_pc = "off"
    /\ recursive = FALSE
    /\ f_in = <<>>
    /\ f_i = 0
    /\ f_out = <<>>
    /\ f_out0 = <<>>
    /\ f_later = FALSE
    /\ copied_count = 0
    /\ conflicts_resolved = 0
    /\ skipped_duplicates = 0

\* no request is being handled by the server
NoResponse == [code |-> 0, documents |-> <<>>, page |-> 0]

ServerOff ==
    /\ s_pc = "off"
    /\ s_len = 0
    /\ s_ct = ""
    /\ s_n = 0
    /\ s_task = <<>>
    /\ s_taken = {}
    /\ documents = <<>>
    /\ s_err = 0
    /\ response = NoResponse
    /\ s_calls = 0

Fresh ==
    /\ sink = [d \in Docs |-> NoFile]
    /\ pc = "main"
    /\ cur = 1
    /\ task = <<>>
    /\ texts = <<>>
    /\ next = 1
    /\ exc = 0
    /\ status = [d \in Docs |-> "pending"]
    /\ prev = {}
    /\ ocr_calls = 0

Init ==
    /\ max_workers \in PoolSizes
    /\ pages \in [Docs -> 0..MaxPages]
    /\ flaky = 1..MaxPages
    /\ script = NoScript
    /\ Fresh
    /\ ServerOff
    /\ BatchOff
    /\ FilesOff

\* ------------------------------------------------------- process_document
\* mutant: the output file is opened for writing before the check, which
\* empties it
SkipTruncates ==
    /\ pc = "main"
    /\ OutputExists(cur)
    /\ status' = [status EXCEPT ![cur] = "skipped"]
    /\ sink' = [sink EXCEPT ![cur] = [exists |-> TRUE, content |-> ""]]
    /\ pc' = "returned"
    /\ UNCHANGED <<max_workers, pages, cur, task, texts, next,
                   exc, prev, ocr_calls, flaky, script, srv, bat, fil>>

\* lines 71-75: the output exists, the document is skipped
Skip ==
    /\ pc = "main"
    /\ OutputExists(cur)
    /\ status' = [status EXCEPT ![cur] = "skipped"]
    /\ pc' = "returned"
    /\ UNCHANGED <<max_workers, pages, sink, cur, task, texts, next,
                   exc, prev, ocr_calls, flaky, script, srv, bat, fil>>

\* lines 82-84: list the images, texts = [""] * len(images)
Begin ==
    /\ pc = "main"
    /\ ~OutputExists(cur)
    /\ status' = [status EXCEPT ![cur] = "processing"]
    /\ task' = [i \in 1..pages[cur] |-> NewTask]
    /\ texts' = [i \in 1..pages[cur] |-> ""]
    /\ pc' = IF pages[cur] = 0 THEN "collect" ELSE "submit"
    /\ UNCHANGED <<max_workers, pages, sink, cur, next, exc, prev,
                   ocr_calls, flaky, script, srv, bat, fil>>

\* line 99, executor.map: one submit per page, in index order
Submit ==
    /\ pc = "submit"
    /\ \E i \in DOMAIN task :
        /\ task[i].st = "unsubmitted"
        /\ \A j \in 1..(i - 1) : task[j].st # "unsubmitted"
        /\ task' = [task EXCEPT ![i].st = "pending"]
        /\ pc' = IF i = Len(task) THEN "collect" ELSE "submit"
    /\ UNCHANGED <<max_workers, pages, sink, cur, texts, next, exc,
                   status, prev, ocr_calls, flaky, script, srv, bat, fil>>

Working == pc \in {"submit", "collect", "shutdown"}

\* a worker takes page i from the queue and ocr_page(i) issues request 1
StartTask(i) ==
    /\ Working
    /\ QueueHead(i)
    /\ WorkerFree
    /\ task' = [task EXCEPT ![i].st = "request", ![i].attempts = 1]
    /\ ocr_calls' = ocr_calls + 1
    /\ UNCHANGED <<max_workers, pages, sink, pc, cur, texts, next, exc,
                   status, prev, flaky, script, srv, bat, fil>>

\* what the endpoint may answer to a request for page i
Answers(i) ==
    IF script.on THEN {script.plan[cur][i][task[i].attempts]}
    ELSE IF i \in flaky THEN Outcomes
    ELSE {"text"}

\* what call_ocr_api can do after the request of page i that is in flight
Results(i) == {AfterAttempt(task[i].attempts, o) : o \in Answers(i)}

\* the future of page i once call_ocr_api did r: it sleeps before the next
\* request, or it returns and ocr_page ends
TaskAfter(i, r) ==
    IF r = "sleep"
    THEN [task[i] EXCEPT !.st = "sleeping", !.sleeps = @ + 1]
    ELSE IF r = "return_text"
    THEN [task[i] EXCEPT !.st = OcrPageEnd("text"), !.ret = "text"]
    ELSE [task[i] EXCEPT !.st = OcrPageEnd("none"), !.ret = "none"]

\* mutant: texts.append(text), a text goes into the first slot that is free
TextsAfterAppend(i, r) ==
    LET t == TaskAfter(i, r)
        k == CHOOSE k \in DOMAIN texts :
                texts[k] = "" /\ \A m \in 1..(k - 1) : texts[m] # ""
    IN  IF t.st = "done"
        THEN [texts EXCEPT ![k] = IF t.ret = "text" THEN PageText(i) ELSE "None"]
        ELSE texts

\* line 94: texts[idx] = text, reached when ocr_page did not raise
TextsAfter(i, r) ==
    LET t == TaskAfter(i, r)
    IN  IF t.st = "done"
        THEN [texts EXCEPT ![i] = IF t.ret = "text" THEN PageText(i) ELSE "None"]
        ELSE texts

\* the request of page i ends and call_ocr_api does r
Respond(i, r) ==
    /\ Working
    /\ task[i].st = "request"
    /\ r \in Results(i)
    /\ task' = [task EXCEPT ![i] = TaskAfter(i, r)]
    /\ texts' = TextsAfter(i, r)
    /\ UNCHANGED <<max_workers, pages, sink, pc, cur, next, exc, status,
                   prev, ocr_calls, flaky, script, srv, bat, fil>>

\* time.sleep(delay) of page i is over: the loop issues the next request
Wake(i) ==
    /\ Working
    /\ task[i].st = "sleeping"
    /\ task' = [task EXCEPT ![i].st = "request", ![i].attempts = @ + 1]
    /\ ocr_calls' = ocr_calls + 1
    /\ UNCHANGED <<max_workers, pages, sink, pc, cur, texts, next, exc,
                   status, prev, flaky, script, srv, bat, fil>>

\* mutant: the pool is shut down at once, the running tasks are stopped too
CancelRestAll(i) ==
    [j \in DOMAIN task |->
        IF j > i /\ task[j].st \in {"pending", "request", "sleeping"}
        THEN [task[j] EXCEPT !.st = "cancelled"]
        ELSE task[j]]

\* the result iterator of executor.map ends on an exception: the futures it
\* has not taken yet are cancelled, which stops those that have not started
CancelRest(i) ==
    [j \in DOMAIN task |->
        IF j > i /\ task[j].st = "pending"
        THEN [task[j] EXCEPT !.st = "cancelled"]
        ELSE task[j]]

\* mutant: the iterator does not wait for a future that is still running
ResultReadyEarly(i) == task[i].st # "raised"

\* future.result() of page i returns / raises
ResultReady(i) == task[i].st = "done"
ResultRaises(i) == task[i].st = "raised"

\* mutant: the exception of the highest failed page is the one reported
FirstExceptionHighest == CHOOSE i \in RaisedPages : \A j \in RaisedPages : j <= i

\* the exception that leaves list(executor.map(...)) is the one of the
\* future the result iterator is waiting for
FirstException == next

\* line 99: list(executor.map(...)) takes the results in index order
Collect ==
    /\ pc = "collect"
    /\ \/ /\ next \in DOMAIN task
          /\ ResultReady(next)
          /\ next' = next + 1
          /\ UNCHANGED <<pc, task, exc>>
       \/ /\ next \in DOMAIN task
          /\ ResultRaises(next)
          /\ exc' = FirstException
          /\ task' = CancelRest(next)
          /\ pc' = "shutdown"
          /\ UNCHANGED next
       \/ /\ next = Len(task) + 1
          /\ pc' = "shutdown"
          /\ UNCHANGED <<next, task, exc>>
    /\ UNCHANGED <<max_workers, pages, sink, cur, texts, status, prev,
                   ocr_calls, flaky, script, srv, bat, fil>>

\* mutant: shutdown(wait=False), the pool is left once its queue is empty
PoolIdleOnlyQueue == Pending = {}

\* mutant: the pool is left without waiting for its threads
PoolIdleNoWait == TRUE

\* leaving the with block: shutdown(wait=True) joins the worker threads
PoolIdle == InFlight = {} /\ Pending = {}

\* mutant: the output file is opened before the pages are read, so a failure
\* leaves it behind, empty
SinkAfterFailureMarker == [sink EXCEPT ![cur] = [exists |-> TRUE, content |-> ""]]

\* lines 100-102: the except branch writes nothing
SinkAfterFailure == sink

\* mutant: the exception of the failed page is not caught and ends main()
AfterFailureFatal == "exit"

\* lines 100-102: except Exception prints and process_document returns
AfterFailure == "returned"

\* lines 98-102: the pool is left; an exception is caught and
\* process_document returns without writing
Shutdown ==
    /\ pc = "shutdown"
    /\ PoolIdle
    /\ \/ /\ exc # 0
          /\ status' = [status EXCEPT ![cur] = "failed"]
          /\ sink' = SinkAfterFailure
          /\ pc' = AfterFailure
       \/ /\ exc = 0
          /\ pc' = "open"
          /\ UNCHANGED <<status, sink>>
    /\ UNCHANGED <<max_workers, pages, cur, task, texts, next, exc, prev,
                   ocr_calls, flaky, script, srv, bat, fil>>

\* line 104: open(output_file, "w") creates the file, empty
OpenOutput ==
    /\ pc = "open"
    /\ sink' = [sink EXCEPT ![cur] = [exists |-> TRUE, content |-> ""]]
    /\ pc' = "write"
    /\ UNCHANGED <<max_workers, pages, cur, task, texts, next, exc,
                   status, prev, ocr_calls, flaky, script, srv, bat, fil>>

\* mutant: the pages are joined last page first
RECURSIVE Reverse(_)
Reverse(s) == IF Len(s) = 0 THEN <<>> ELSE Append(Reverse(Tail(s)), s[1])
AssembledReversed == Join(Reverse(texts))

\* the text process_document writes
Assembled == Join(texts)

\* lines 105-106: the joined text is written and the file closed
WriteOutput ==
    /\ pc = "write"
    /\ sink' = [sink EXCEPT ![cur].content = Assembled]
    /\ status' = [status EXCEPT ![cur] = "written"]
    /\ pc' = "returned"
    /\ UNCHANGED <<max_workers, pages, cur, task, texts, next, exc,
                   prev, ocr_calls, flaky, script, srv, bat, fil>>

\* ------------------------------------------------------------------- main
\* mutant: the loop hands the same folder to process_document again
NextFolderSame == cur

\* line 110: the for loop takes each entry of os.listdir(INPUT_DIR) once
NextFolder == cur + 1

\* lines 110-111: process_document returned, its locals are dropped, and the
\* loop goes to the next folder of the listing or ends
NextDoc ==
    /\ pc = "returned"
    /\ cur' = NextFolder
    /\ pc' = IF cur = NumDocs THEN "exit" ELSE "main"
    /\ task' = <<>>
    /\ texts' = <<>>
    /\ next' = 1
    /\ exc' = 0
    /\ ocr_calls' = 0
    /\ UNCHANGED <<max_workers, pages, sink, status, prev, flaky, script, srv, bat, fil>>

\* the process is killed (KeyboardInterrupt, power loss) while a document
\* is processed: its threads and its memory are gone, the files stay
Crash ==
    /\ pc \in {"submit", "collect", "shutdown", "open", "write"}
    /\ status' = [status EXCEPT ![cur] = "interrupted"]
    /\ pc' = "exit"
    /\ task' = <<>>
    /\ texts' = <<>>
    /\ next' = 1
    /\ exc' = 0
    /\ ocr_calls' = 0
    /\ UNCHANGED <<max_workers, pages, sink, cur, prev, flaky, script, srv, bat, fil>>

\* the script is started again over the same folders
NextRun ==
    /\ pc = "exit"
    /\ prev' = {d \in Docs : status[d] = "failed"}
    /\ status' = [d \in Docs |-> "pending"]
    /\ cur' = 1
    /\ pc' = "main"
    /\ UNCHANGED <<max_workers, pages, sink, task, texts, next, exc,
                   ocr_calls, flaky, script, srv, bat, fil>>

Next ==
    \/ Skip
    \/ Begin
    \/ Submit
    \/ \E i \in DOMAIN task : StartTask(i)
    \/ \E i \in DOMAIN task, r \in Steps : Respond(i, r)
    \/ \E i \in DOMAIN task : Wake(i)
    \/ Collect
    \/ Shutdown
    \/ OpenOutput
    \/ WriteOutput
    \/ NextDoc
    \/ Crash
    \/ NextRun

Spec == Init /\ [][Next]_vars

\* ------------------------------------------------- the pool under full load
\* largest number of pages of the document whose requests meet errors
MaxFlaky == 1
NumDirs == 2

\* one document with one page more than the pool has workers
InitPool ==
    /\ max_workers \in PoolSizes
    /\ pages = [d \in Docs |-> IF d = 1 THEN max_workers + 1 ELSE 0]
    /\ flaky \in {f \in SUBSET (1..(max_workers + 1)) : Cardinality(f) <= MaxFlaky}
    /\ script = NoScript
    /\ Fresh
    /\ ServerOff
    /\ BatchOff
    /\ FilesOff

SpecPool == InitPool /\ [][Next]_vars

\* ------------------------------------- the answers of the endpoint are fixed
\* the first document has pages, and the answer to each attempt of each of
\* its pages is fixed before the run; the threads interleave as they like
InitScript ==
    /\ max_workers \in PoolSizes
    /\ pages \in [Docs -> 0..MaxPages]
    /\ \A d \in Docs : d > 1 => pages[d] = 0
    /\ flaky = {}
    /\ script \in {[on |-> TRUE, plan |-> [d \in Docs |-> IF d = 1 THEN q ELSE <<>>]] :
                    q \in [1..pages[1] -> Plans]}
    /\ Fresh
    /\ ServerOff
    /\ BatchOff
    /\ FilesOff

SpecScript == InitScript /\ [][Next]_vars

\* ------------------------------------------- folders that get their pages late
\* between two runs page images are put into a folder that had none
AddPages ==
    /\ pc = "exit"
    /\ \E d \in Docs, n \in 1..MaxPages :
        /\ pages[d] = 0
        /\ pages' = [pages EXCEPT ![d] = n]
    /\ UNCHANGED <<max_workers, sink, pc, cur, task, texts, next, exc,
                   status, prev, ocr_calls, flaky, script, srv, bat, fil>>

\* runs that are not killed, one after the other
NextGrow ==
    \/ Skip
    \/ Begin
    \/ Submit
    \/ \E i \in DOMAIN task : StartTask(i)
    \/ \E i \in DOMAIN task, r \in Steps : Respond(i, r)
    \/ \E i \in DOMAIN task : Wake(i)
    \/ Collect
    \/ Shutdown
    \/ OpenOutput
    \/ WriteOutput
    \/ NextDoc
    \/ NextRun
    \/ AddPages

InitGrow ==
    /\ max_workers \in PoolSizes
    /\ pages \in [Docs -> 0..MaxPages]
    /\ flaky = 1..MaxFlaky
    /\ script = NoScript
    /\ Fresh
    /\ ServerOff
    /\ BatchOff
    /\ FilesOff

SpecGrow == InitGrow /\ [][NextGrow]_vars

\* ------------------------------------------------ one run that is not killed
\* the steps of one invocation of main() that runs to its end
NextLive ==
    \/ Skip
    \/ Begin
    \/ Submit
    \/ \E i \in DOMAIN task : StartTask(i)
    \/ \E i \in DOMAIN task, r \in Steps : Respond(i, r)
    \/ \E i \in DOMAIN task : Wake(i)
    \/ Collect
    \/ Shutdown
    \/ OpenOutput
    \/ WriteOutput
    \/ NextDoc

\* the output an earlier run has written for document d
WrittenBefore(d) ==
    [exists |-> TRUE, content |-> Join([i \in 1..pages[d] |-> PageText(i)])]

\* main() is started over folders some of which an earlier run has written
InitLive ==
    /\ max_workers \in PoolSizes
    /\ pages \in [Docs -> 0..MaxPages]
    /\ flaky = 1..MaxFlaky
    /\ script = NoScript
    /\ ServerOff
    /\ BatchOff
    /\ FilesOff
    /\ sink \in [Docs -> {NoFile} \cup {WrittenBefore(d) : d \in Docs}]
    /\ \A d \in Docs : sink[d] \in {NoFile, WrittenBefore(d)}
    /\ pc = "main"
    /\ cur = 1
    /\ task = <<>>
    /\ texts = <<>>
    /\ next = 1
    /\ exc = 0
    /\ status = [d \in Docs |-> "pending"]
    /\ prev = {}
    /\ ocr_calls = 0

\* every request returns or times out (timeout=300), every sleep ends, and
\* the threads are scheduled: a step that can be taken is eventually taken
SpecLive == InitLive /\ [][NextLive]_vars /\ WF_vars(NextLive)

\* ------------------------------------------------ openwebui_ocr_server.py
\* MAX_PAGES = 500
MAX_PAGES == 500
\* MAX_FILE_SIZE = 100 * 1024 * 1024
MAX_FILE_SIZE == 100 * 1024 * 1024
\* OCR_MAX_RETRIES = 3
OCR_MAX_RETRIES == 3

\* the variables of ocr_vision.py, which the server does not touch
cli == <<max_workers, pages, sink, pc, cur, task, texts, next, exc, status,
         prev, ocr_calls, flaky, script>>

\* the requests a client sends: body lengths around the limits, content
\* types of each kind, and PDFs of no pages, of few, of one more than the
\* pool has workers, and of too many
BodyLengths == {0, 1, MAX_FILE_SIZE, MAX_FILE_SIZE + 1}
ContentTypes == {"application/pdf", "image/png", "image/jpeg", "text/plain", ""}
PageCounts == (0..MaxPages) \cup {MaxWorkersServer + 1, MAX_PAGES + 1}

\* "pdf" in content_type
IsPdf(ct) == ct \in {"application/pdf"}
\* any(img_type in content_type for img_type in ["png", "jpeg", "jpg"])
IsImage(ct) == ct \in {"image/png", "image/jpeg"}

\* exceptions: an HTTPException with its status code (and the page its
\* detail names), any other exception, or none
NoException == [raised |-> FALSE, http |-> FALSE, code |-> 0, page |-> 0]
OtherException == [raised |-> TRUE, http |-> FALSE, code |-> 0, page |-> 0]
HTTPException(c, p) == [raised |-> TRUE, http |-> TRUE, code |-> c, page |-> p]

\* validate_file_size(content)
ValidateFileSize(len) ==
    IF len = 0 THEN HTTPException(400, 0)
    ELSE IF len > MAX_FILE_SIZE THEN HTTPException(413, 0)
    ELSE NoException

\* lines 148-152: the checks of process_pdf on the number of images
CheckPages(n) ==
    IF n = 0 THEN HTTPException(422, 0)
    ELSE IF n > MAX_PAGES THEN HTTPException(400, 0)
    ELSE NoException

\* mutant: the handler of process_pdf wraps every exception
ProcessPdfExceptWrapsAll(e) == HTTPException(422, 0)

\* lines 179-186: except Exception of process_pdf
ProcessPdfExcept(e) == IF e.http THEN e ELSE HTTPException(422, 0)

\* lines 251-255: the except clauses of process_file
ProcessFileExcept(e) == IF e.http THEN e ELSE HTTPException(500, 0)

\* the response FastAPI makes of an HTTPException that leaves the handler
ErrorResponse(e) == [code |-> e.code, documents |-> <<>>, page |-> e.page]

\* JSONResponse(content=documents)
OkResponse(docs) == [code |-> 200, documents |-> docs, page |-> 0]

\* lines 124-131: the document process_image returns for page p
Doc(p) == [page_content |-> PageText(p), page |-> p]

\* documents.sort(key=lambda x: x["metadata"]["page"])
RECURSIVE InsertByPage(_, _)
InsertByPage(d, s) ==
    IF Len(s) = 0 THEN <<d>>
    ELSE IF d.page < Head(s).page THEN <<d>> \o s
    ELSE <<Head(s)>> \o InsertByPage(d, Tail(s))

RECURSIVE SortByPage(_)
SortByPage(s) ==
    IF Len(s) = 0 THEN <<>> ELSE InsertByPage(Head(s), SortByPage(Tail(s)))

\* one iteration of the loop of the server's call_ocr_api
ServerAfterAttempt(attempt, outcome) ==
    IF outcome = "text" THEN "return_text"
    ELSE IF outcome = "null" THEN "return_none"
    ELSE IF attempt < OCR_MAX_RETRIES THEN "sleep"
    ELSE "return_none"

\* lines 119-134: process_image raises RuntimeError on None
ProcessImageEnd(ret) == IF ret = "none" THEN "raised" ELSE "done"

SPending == {p \in DOMAIN s_task : s_task[p].st = "pending"}
SInFlight == {p \in DOMAIN s_task : s_task[p].st \in {"request", "sleeping"}}
SEnded == {p \in DOMAIN s_task : s_task[p].st \in {"done", "raised"}}

\* a client has sent PUT /process
InitServer ==
    /\ max_workers = MaxWorkersServer
    /\ pages = [d \in Docs |-> 0]
    /\ flaky = 1..MaxPages
    /\ script = NoScript
    /\ Fresh
    /\ s_pc = "request"
    /\ s_len \in BodyLengths
    /\ s_ct \in ContentTypes
    /\ s_n = 0
    /\ s_task = <<>>
    /\ s_taken = {}
    /\ documents = <<>>
    /\ s_err = 0
    /\ response = NoResponse
    /\ s_calls = 0
    /\ BatchOff
    /\ FilesOff

\* lines 226-229: the body is read and its size checked
SValidate ==
    /\ s_pc = "request"
    /\ LET e == ValidateFileSize(s_len)
       IN  IF e.raised
           THEN /\ response' = ErrorResponse(ProcessFileExcept(e))
                /\ s_pc' = "responded"
           ELSE /\ s_pc' = "dispatch"
                /\ UNCHANGED response
    /\ UNCHANGED <<s_len, s_ct, s_n, s_task, s_taken, documents, s_err, s_calls>>
    /\ UNCHANGED <<cli, bat, fil>>

\* lines 238-246: the content type selects the processing
SDispatch ==
    /\ s_pc = "dispatch"
    /\ IF IsPdf(s_ct) THEN s_pc' = "convert" /\ UNCHANGED response
       ELSE IF IsImage(s_ct) THEN s_pc' = "image" /\ UNCHANGED response
       ELSE /\ response' = ErrorResponse(ProcessFileExcept(HTTPException(400, 0)))
            /\ s_pc' = "responded"
    /\ UNCHANGED <<s_len, s_ct, s_n, s_task, s_taken, documents, s_err, s_calls>>
    /\ UNCHANGED <<cli, bat, fil>>

\* lines 140-157: convert_from_bytes gives the images or raises (a PDF that
\* cannot be read); the number of images is checked
SConvert ==
    /\ s_pc = "convert"
    /\ \/ /\ response' = ErrorResponse(ProcessFileExcept(ProcessPdfExcept(OtherException)))
          /\ s_pc' = "responded"
          /\ UNCHANGED <<s_n, s_task>>
       \/ \E n \in PageCounts :
            /\ s_n' = n
            /\ IF CheckPages(n).raised
               THEN /\ response' =
                        ErrorResponse(ProcessFileExcept(ProcessPdfExcept(CheckPages(n))))
                    /\ s_pc' = "responded"
                    /\ UNCHANGED s_task
               ELSE /\ s_task' = [p \in 1..n |-> NewTask]
                    /\ s_pc' = "submit"
                    /\ UNCHANGED response
    /\ UNCHANGED <<s_len, s_ct, s_taken, documents, s_err, s_calls>>
    /\ UNCHANGED <<cli, bat, fil>>

\* lines 160-163: executor.submit for each page, in page order
SSubmit ==
    /\ s_pc = "submit"
    /\ \E p \in DOMAIN s_task :
        /\ s_task[p].st = "unsubmitted"
        /\ \A q \in 1..(p - 1) : s_task[q].st # "unsubmitted"
        /\ s_task' = [s_task EXCEPT ![p].st = "pending"]
        /\ s_pc' = IF p = Len(s_task) THEN "collect" ELSE "submit"
    /\ UNCHANGED <<s_len, s_ct, s_n, s_taken, documents, s_err, response, s_calls>>
    /\ UNCHANGED <<cli, bat, fil>>

\* the threads of the pool run while the handler is inside the with block,
\* and call_ocr_api runs in the handler itself for an image file
SWorking == s_pc \in {"submit", "collect", "shutdown", "image_ocr"}

\* a worker takes page p from the queue and process_image issues request 1
SStartTask(p) ==
    /\ SWorking
    /\ p \in SPending
    /\ \A q \in SPending : p <= q
    /\ Cardinality(SInFlight) < MaxWorkersServer
    /\ s_task' = [s_task EXCEPT ![p].st = "request", ![p].attempts = 1]
    /\ s_calls' = s_calls + 1
    /\ UNCHANGED <<s_pc, s_len, s_ct, s_n, s_taken, documents, s_err, response>>
    /\ UNCHANGED <<cli, bat, fil>>

\* what the endpoint may answer to a request for page p
SAnswers(p) == IF p \in flaky THEN Outcomes ELSE {"text"}

\* the request of page p ends and call_ocr_api does r
SRespond(p, r) ==
    /\ SWorking
    /\ s_task[p].st = "request"
    /\ r \in {ServerAfterAttempt(s_task[p].attempts, o) : o \in SAnswers(p)}
    /\ s_task' = [s_task EXCEPT ![p] =
            IF r = "sleep"
            THEN [@ EXCEPT !.st = "sleeping", !.sleeps = @ + 1]
            ELSE IF r = "return_text"
            THEN [@ EXCEPT !.st = ProcessImageEnd("text"), !.ret = "text"]
            ELSE [@ EXCEPT !.st = ProcessImageEnd("none"), !.ret = "none"]]
    /\ UNCHANGED <<s_pc, s_len, s_ct, s_n, s_taken, documents, s_err, response,
                   s_calls>>
    /\ UNCHANGED <<cli, bat, fil>>

\* time.sleep(OCR_RETRY_DELAY) of page p is over: the next request
SWake(p) ==
    /\ SWorking
    /\ s_task[p].st = "sleeping"
    /\ s_task' = [s_task EXCEPT ![p].st = "request", ![p].attempts = @ + 1]
    /\ s_calls' = s_calls + 1
    /\ UNCHANGED <<s_pc, s_len, s_ct, s_n, s_taken, documents, s_err, response>>
    /\ UNCHANGED <<cli, bat, fil>>

\* as_completed yields a future that has ended and was not yielded before
NextCompleted(p) == p \in SEnded \ s_taken

\* mutant: the list is returned as the results came in
SortedDocumentsUnsorted == documents

\* lines 176-177: the documents sorted by page number
SortedDocuments == SortByPage(documents)

\* lines 166-173: the loop over as_completed appends the result of a page or
\* raises HTTPException(500) for the first future met that has failed
SCollect ==
    /\ s_pc = "collect"
    /\ \/ \E p \in DOMAIN s_task :
            /\ NextCompleted(p)
            /\ s_task[p].st = "done"
            /\ documents' = Append(documents, Doc(p))
            /\ s_taken' = s_taken \cup {p}
            /\ UNCHANGED <<s_pc, s_err>>
       \/ \E p \in DOMAIN s_task :
            /\ NextCompleted(p)
            /\ s_task[p].st = "raised"
            /\ s_err' = p
            /\ s_taken' = s_taken \cup {p}
            /\ s_pc' = "shutdown"
            /\ UNCHANGED documents
       \/ /\ s_taken = DOMAIN s_task
          /\ s_pc' = "shutdown"
          /\ UNCHANGED <<s_taken, documents, s_err>>
    /\ UNCHANGED <<s_len, s_ct, s_n, s_task, response, s_calls>>
    /\ UNCHANGED <<cli, bat, fil>>

\* mutant: the pool is left without waiting for its threads
SPoolIdleNoWait == TRUE

\* leaving the with block: shutdown(wait=True) runs the queue empty and joins
\* the worker threads; no future is cancelled
SPoolIdle == SInFlight = {} /\ SPending = {}

\* lines 158-186 and 248-255: the with block is left; the HTTPException of
\* line 173 passes both handlers and becomes the response, otherwise the
\* documents are sorted and returned
SShutdown ==
    /\ s_pc = "shutdown"
    /\ SPoolIdle
    /\ response' =
        IF s_err # 0
        THEN ErrorResponse(ProcessFileExcept(ProcessPdfExcept(HTTPException(500, s_err))))
        ELSE OkResponse(SortedDocuments)
    /\ s_pc' = "responded"
    /\ UNCHANGED <<s_len, s_ct, s_n, s_task, s_taken, documents, s_err, s_calls>>
    /\ UNCHANGED <<cli, bat, fil>>

\* lines 190-198: process_image_file opens the image, which may raise, and
\* calls call_ocr_api in the handler
SImage ==
    /\ s_pc = "image"
    /\ \/ /\ response' = ErrorResponse(ProcessFileExcept(HTTPException(422, 0)))
          /\ s_pc' = "responded"
          /\ UNCHANGED <<s_task, s_calls>>
       \/ /\ s_task' = <<[NewTask EXCEPT !.st = "request", !.attempts = 1]>>
          /\ s_calls' = s_calls + 1
          /\ s_pc' = "image_ocr"
          /\ UNCHANGED response
    /\ UNCHANGED <<s_len, s_ct, s_n, s_taken, documents, s_err>>
    /\ UNCHANGED <<cli, bat, fil>>

\* lines 199-214: call_ocr_api has returned: one document, or RuntimeError
\* which the handler of process_image_file turns into HTTPException(422)
SImageEnd ==
    /\ s_pc = "image_ocr"
    /\ s_task[1].st \in {"done", "raised"}
    /\ response' =
        IF s_task[1].st = "done" THEN OkResponse(<<Doc(1)>>)
        ELSE ErrorResponse(ProcessFileExcept(HTTPException(422, 0)))
    /\ s_pc' = "responded"
    /\ UNCHANGED <<s_len, s_ct, s_n, s_task, s_taken, documents, s_err, s_calls>>
    /\ UNCHANGED <<cli, bat, fil>>

NextServer ==
    \/ SValidate
    \/ SDispatch
    \/ SConvert
    \/ SSubmit
    \/ \E p \in DOMAIN s_task : SStartTask(p)
    \/ \E p \in DOMAIN s_task, r \in Steps : SRespond(p, r)
    \/ \E p \in DOMAIN s_task : SWake(p)
    \/ SCollect
    \/ SShutdown
    \/ SImage
    \/ SImageEnd

SpecServer == InitServer /\ [][NextServer]_vars

\* -------------------------------------------------------- process_pdfs.py
Digits == <<"1", "2", "3", "4", "5", "6", "7", "8">>

\* what ocr_page_with_rolm can end in: an exception of the client, or a
\* message whose content is None or a text
RolmOutcomes == {"error", "null", "text"}

\* lines 63-68: what is appended to all_text for page n
PageEntry(n, outcome) ==
    IF outcome = "error"
    THEN "--- Page " \o Digits[n] \o " ---\n[ERROR: Could not process this page]\n"
    ELSE IF outcome = "null"
    THEN "--- Page " \o Digits[n] \o " ---\n" \o "None" \o "\n"
    ELSE "--- Page " \o Digits[n] \o " ---\n" \o PageText(n) \o "\n"

\* "\n".join(all_text)
RECURSIVE JoinLines(_)
JoinLines(s) ==
    IF Len(s) = 0 THEN ""
    ELSE IF Len(s) = 1 THEN s[1]
    ELSE s[1] \o "\n" \o JoinLines(Tail(s))

\* the orders in which glob can list the files of a folder
Listings(S) ==
    {q \in [1..Cardinality(S) -> S] : \A i, j \in 1..Cardinality(S) : i # j => q[i] # q[j]}

\* the PDF process_all_pdfs is at
ThisPdf == pdf_files[b_i]

\* process_pdfs.py is started on a folder of PDFs: the first has up to
\* MaxPages pages, the others one page at most
InitBatch ==
    /\ max_workers = MaxWorkersVision
    /\ pages \in [Docs -> 0..MaxPages]
    /\ \A d \in Docs : d > 1 => pages[d] <= 1
    /\ flaky = 1..MaxFlaky
    /\ script = NoScript
    /\ Fresh
    /\ ServerOff
    /\ b_pc = "start"
    /\ b_in = Docs
    /\ b_out = {}
    /\ b_txt = [d \in Docs |-> NoFile]
    /\ pdf_files = <<>>
    /\ b_i = 1
    /\ page_num = 1
    /\ all_text = <<>>
    /\ b_calls = {}
    /\ FilesOff

\* lines 75-88: the PDFs of input_docs are listed
BStart ==
    /\ b_pc = "start"
    /\ pdf_files' \in Listings(b_in)
    /\ b_i' = 1
    /\ b_pc' = IF b_in = {} THEN "exit" ELSE "pdf"
    /\ UNCHANGED <<b_in, b_out, b_txt, page_num, all_text, b_calls>>
    /\ UNCHANGED <<cli, srv, fil>>

\* mutant: an exception while a PDF is processed is swallowed and the PDF
\* is moved all the same
AfterErrorGoesOn == "move"

\* lines 110-112: except Exception prints and continues with the next PDF
AfterError == "next"

\* lines 95, 43-44: fitz.open(pdf_path) opens the PDF or raises
BOpenPdf ==
    /\ b_pc = "pdf"
    /\ \/ b_pc' = AfterError
       \/ b_pc' = IF pages[ThisPdf] = 0 THEN "open" ELSE "ocr"
    /\ UNCHANGED <<page_num, all_text>>
    /\ UNCHANGED <<b_in, b_out, b_txt, pdf_files, b_i, b_calls>>
    /\ UNCHANGED <<cli, srv, fil>>

\* what the OCR endpoint may answer for page n
RolmAnswers(n) == IF n \in flaky THEN RolmOutcomes ELSE {"text"}

\* lines 46-68: one page is rendered and sent to the OCR endpoint, once;
\* whatever the call ends in, an entry for the page is appended
BOcrPage ==
    /\ b_pc = "ocr"
    /\ \E o \in RolmAnswers(page_num) :
        all_text' = Append(all_text, PageEntry(page_num, o))
    /\ page_num' = page_num + 1
    /\ b_pc' = IF page_num = pages[ThisPdf] THEN "open" ELSE "ocr"
    /\ b_calls' = b_calls \cup {ThisPdf}
    /\ UNCHANGED <<b_in, b_out, b_txt, pdf_files, b_i>>
    /\ UNCHANGED <<cli, srv, fil>>

\* lines 70-71, 98-101: open(txt_path, "w") creates or empties the text file,
\* or raises
BOpenTxt ==
    /\ b_pc = "open"
    /\ \/ /\ b_txt' = [b_txt EXCEPT ![ThisPdf] = [exists |-> TRUE, content |-> ""]]
          /\ b_pc' = "write"
       \/ /\ b_pc' = AfterError
          /\ UNCHANGED b_txt
    /\ UNCHANGED <<b_in, b_out, pdf_files, b_i, page_num, all_text, b_calls>>
    /\ UNCHANGED <<cli, srv, fil>>

\* line 102: f.write(extracted_text) and the file is closed, or the write
\* raises (disk full) and leaves the file without its text
BWrite ==
    /\ b_pc = "write"
    /\ \/ /\ b_txt' = [b_txt EXCEPT ![ThisPdf].content = JoinLines(all_text)]
          /\ b_pc' = "move"
       \/ /\ b_pc' = AfterError
          /\ UNCHANGED b_txt
    /\ UNCHANGED <<b_in, b_out, pdf_files, b_i, page_num, all_text, b_calls>>
    /\ UNCHANGED <<cli, srv, fil>>

\* lines 105-108: shutil.move puts the PDF into the output folder, or raises
BMove ==
    /\ b_pc = "move"
    /\ \/ /\ b_in' = b_in \ {ThisPdf}
          /\ b_out' = b_out \cup {ThisPdf}
          /\ b_pc' = "next"
       \/ /\ b_pc' = AfterError
          /\ UNCHANGED <<b_in, b_out>>
    /\ UNCHANGED <<b_txt, pdf_files, b_i, page_num, all_text, b_calls>>
    /\ UNCHANGED <<cli, srv, fil>>

\* line 90: the loop drops what it held for this PDF and goes to the next
\* PDF of the list, or ends and with it the process
BNext ==
    /\ b_pc = "next"
    /\ page_num' = 1
    /\ all_text' = <<>>
    /\ IF b_i = Len(pdf_files)
       THEN b_pc' = "exit" /\ b_i' = 1 /\ pdf_files' = <<>>
       ELSE b_pc' = "pdf" /\ b_i' = b_i + 1 /\ UNCHANGED pdf_files
    /\ UNCHANGED <<b_in, b_out, b_txt, b_calls>>
    /\ UNCHANGED <<cli, srv, fil>>

\* the process is killed while a PDF is processed: its memory is gone, the
\* files stay
BCrash ==
    /\ b_pc \in {"pdf", "ocr", "open", "write", "move", "next"}
    /\ b_pc' = "killed"
    /\ pdf_files' = <<>>
    /\ b_i' = 1
    /\ page_num' = 1
    /\ all_text' = <<>>
    /\ UNCHANGED <<b_in, b_out, b_txt, b_calls>>
    /\ UNCHANGED <<cli, srv, fil>>

\* the script is started again
BNextRun ==
    /\ b_pc \in {"exit", "killed"}
    /\ b_pc' = "start"
    /\ b_calls' = {}
    /\ UNCHANGED <<b_in, b_out, b_txt, pdf_files, b_i, page_num, all_text>>
    /\ UNCHANGED <<cli, srv, fil>>

NextBatch ==
    \/ BStart
    \/ BOpenPdf
    \/ BOcrPage
    \/ BOpenTxt
    \/ BWrite
    \/ BMove
    \/ BNext
    \/ BCrash
    \/ BNextRun

SpecBatch == InitBatch /\ [][NextBatch]_vars

\* ----------------------------------------------------------- copy_files.py
\* the input folder itself (0) and its subdirectories
Dirs == 0..NumDirs

\* what a file can hold; "w" is a content whose MD5 equals that of "x"
Contents == {"x", "y", "z", "w"}

\* hashlib.md5 of a content
Digest(c) ==
    IF c \in {"x", "w"} THEN "d1" ELSE IF c = "y" THEN "d2" ELSE "d3"

\* what calculate_md5 returns when the file cannot be read
None == "None"

\* lines 8-18: the MD5 of a file, or None when open or read raises
calculate_md5(file) == IF file.readable THEN Digest(file.content) ELSE None

\* the names of the files of the input folder, as Path splits them into
\* stem and suffix
SourceNames ==
    {[stem |-> "a", suffix |-> ".txt"], [stem |-> "a_1", suffix |-> ".txt"]}

\* a directory without a file
NoSrc == [name |-> [stem |-> "", suffix |-> ""], content |-> "", readable |-> FALSE]

\* the files a directory of the input folder may hold; one that cannot be
\* read is only told apart by its name
SourceFiles ==
    [name : SourceNames, content : Contents, readable : {TRUE}]
        \cup [name : SourceNames, content : {"x"}, readable : {FALSE}]

\* the input folder does not exist or is not a directory
NoFolder == <<"missing">>

\* what the output folder may hold before the first run: a.txt, which may
\* be unreadable, and a_1.txt
OutputsBefore ==
    {[n \in S |-> IF n = "a.txt"
                  THEN [content |-> "x", readable |-> r]
                  ELSE [content |-> "z", readable |-> TRUE]] :
        S \in SUBSET {"a.txt", "a_1.txt"}, r \in BOOLEAN}

\* output_path / file
FileName(name) == name.stem \o name.suffix

\* lines 81, 122: output_path / f"{base_name}_{counter}{extension}"
VariantName(name, counter) ==
    name.stem \o "_" \o Digits[counter] \o name.suffix

\* dest_file.exists()
Exists(out, dest) == dest \in DOMAIN out

\* lines 63, 104: src_md5 and dest_md5 and src_md5 == dest_md5
Identical(src_md5, dest_md5) ==
    src_md5 # None /\ dest_md5 # None /\ src_md5 = dest_md5

\* mutant: the numbered versions are not compared with the source
IdenticalVariantNever(src_md5, existing_md5) == FALSE

\* lines 77, 118: src_md5 and existing_md5 and src_md5 == existing_md5
IdenticalVariant(src_md5, existing_md5) ==
    src_md5 # None /\ existing_md5 # None /\ src_md5 = existing_md5

\* mutant: the loop that looks for a free name is not entered
WhileExistsNever(out, dest) == FALSE

\* lines 74, 115: the condition of the while loop
WhileExists(out, dest) == Exists(out, dest)

\* lines 73-87, 114-128: the while loop with its else branch, entered with
\* dest_file and counter
RECURSIVE Probe(_, _, _, _, _)
Probe(out, src_md5, dest, name, counter) ==
    IF ~WhileExists(out, dest)
    THEN [act |-> "copy", dest |-> dest]
    ELSE IF IdenticalVariant(src_md5, calculate_md5(out[dest]))
    THEN [act |-> "skip", dest |-> dest]
    ELSE Probe(out, src_md5, VariantName(name, counter), name, counter + 1)

\* lines 56-92, 97-133: what is done with one file of the input folder
Resolve(out, src) ==
    IF ~Exists(out, FileName(src.name))
    THEN [act |-> "copy", dest |-> FileName(src.name), conflict |-> FALSE]
    ELSE IF Identical(calculate_md5(src), calculate_md5(out[FileName(src.name)]))
    THEN [act |-> "skip", dest |-> FileName(src.name), conflict |-> FALSE]
    ELSE [act |-> Probe(out, calculate_md5(src), FileName(src.name), src.name, 1).act,
          dest |-> Probe(out, calculate_md5(src), FileName(src.name), src.name, 1).dest,
          conflict |-> TRUE]

\* shutil.copy2(src, dest): dest holds the content of src and its mode
Copy2(out, src, dest) ==
    [n \in DOMAIN out \cup {dest} |->
        IF n = dest THEN [content |-> src.content, readable |-> TRUE] ELSE out[n]]

\* lines 50-52, 95: the directories whose files are visited
Walk == IF recursive THEN Dirs ELSE {0}

\* the file the loop is at
Src == f_in[f_i]

\* copy_files is called on an input folder and an output folder
InitFiles ==
    /\ max_workers = MaxWorkersVision
    /\ pages = [d \in Docs |-> 0]
    /\ flaky = {}
    /\ script = NoScript
    /\ Fresh
    /\ ServerOff
    /\ BatchOff
    /\ f_pc = "start"
    /\ recursive \in BOOLEAN
    /\ f_in \in {NoFolder} \cup [Dirs -> SourceFiles \cup {NoSrc}]
    /\ f_i = 0
    /\ f_out \in OutputsBefore
    /\ f_out0 = f_out
    /\ f_later = FALSE
    /\ copied_count = 0
    /\ conflicts_resolved = 0
    /\ skipped_duplicates = 0

\* lines 30-47: the checks of the input folder, and the counters
FStart ==
    /\ f_pc = "start"
    /\ f_pc' = IF f_in = NoFolder THEN "failed" ELSE "walk"
    /\ f_i' = 0
    /\ f_out0' = f_out
    /\ copied_count' = 0
    /\ conflicts_resolved' = 0
    /\ skipped_duplicates' = 0
    /\ UNCHANGED <<recursive, f_in, f_out, f_later>>
    /\ UNCHANGED <<cli, srv, bat>>

\* lines 52-54, 95-96: a directory without a file is passed
FNoFile ==
    /\ f_pc = "walk"
    /\ f_i \in Walk
    /\ Src = NoSrc
    /\ f_i' = f_i + 1
    /\ UNCHANGED <<f_pc, recursive, f_in, f_out, f_out0, f_later, copied_count,
                   conflicts_resolved, skipped_duplicates>>
    /\ UNCHANGED <<cli, srv, bat>>

\* lines 55-92, 97-133: one file is skipped or copied; shutil.copy2 of a file
\* that cannot be read raises, which ends the call at lines 143-145
FFile ==
    /\ f_pc = "walk"
    /\ f_i \in Walk
    /\ Src # NoSrc
    /\ conflicts_resolved' =
        conflicts_resolved + (IF Resolve(f_out, Src).conflict THEN 1 ELSE 0)
    /\ IF Resolve(f_out, Src).act = "skip"
       THEN /\ skipped_duplicates' = skipped_duplicates + 1
            /\ f_i' = f_i + 1
            /\ UNCHANGED <<f_pc, f_out, copied_count>>
       ELSE IF Src.readable
       THEN /\ f_out' = Copy2(f_out, Src, Resolve(f_out, Src).dest)
            /\ copied_count' = copied_count + 1
            /\ f_i' = f_i + 1
            /\ UNCHANGED <<f_pc, skipped_duplicates>>
       ELSE /\ f_pc' = "failed"
            /\ UNCHANGED <<f_i, f_out, copied_count, skipped_duplicates>>
    /\ UNCHANGED <<recursive, f_in, f_out0, f_later>>
    /\ UNCHANGED <<cli, srv, bat>>

\* lines 135-141: every file has been visited, copy_files returns True
FReturn ==
    /\ f_pc = "walk"
    /\ f_i \notin Walk
    /\ f_pc' = "done"
    /\ UNCHANGED <<recursive, f_in, f_i, f_out, f_out0, f_later, copied_count,
                   conflicts_resolved, skipped_duplicates>>
    /\ UNCHANGED <<cli, srv, bat>>

\* the script is run again with the same arguments, on the input folder as
\* it was and the output folder as the run before left it
FNextRun ==
    /\ f_pc \in {"done", "failed"}
    /\ f_pc' = "start"
    /\ f_later' = TRUE
    /\ UNCHANGED <<recursive, f_in, f_i, f_out, f_out0, copied_count,
                   conflicts_resolved, skipped_duplicates>>
    /\ UNCHANGED <<cli, srv, bat>>

NextFiles ==
    \/ FStart
    \/ FNoFile
    \/ FFile
    \/ FReturn
    \/ FNextRun

SpecFiles == InitFiles /\ [][NextFiles]_vars

\* ----------------------------------------------------------------- claims
\* the text of a document of n pages whose pages are in index order
RECURSIVE ExpectedText(_)
ExpectedText(n) ==
    IF n = 0 THEN ""
    ELSE IF n = 1 THEN PageText(1)
    ELSE ExpectedText(n - 1) \o "\n\n" \o PageText(n)

\* process_document is being executed, or has just returned, for document cur
InCall == cur \in Docs /\ pc # "main" /\ pc # "exit"

\* the worker pool of the current document has been left
PoolFinished ==
    \/ pc \in {"open", "write"}
    \/ pc = "returned" /\ status[cur] # "skipped"

\* C1: when call_ocr_api returned None for at least one page of a document,
\* process_document never opens or writes the output of that document: the
\* file does not exist at any later point of the call, and the call ends
\* failed.
C1_NoWriteAfterFailedPage ==
    (InCall /\ \E i \in DOMAIN task : task[i].ret = "none") =>
        /\ ~sink[cur].exists
        /\ pc \notin {"open", "write"}
        /\ status[cur] \in {"processing", "failed"}
        /\ pc = "returned" => status[cur] = "failed"

\* C1 witness: a call that returned failed, with one page failed and another
\* page read, and nothing in the sink
C1_Witness ==
    /\ pc = "returned"
    /\ status[cur] = "failed"
    /\ \E i \in DOMAIN task : task[i].ret = "none"
    /\ \E j \in DOMAIN task : task[j].ret = "text" /\ texts[j] = PageText(j)
    /\ ~sink[cur].exists

\* C2: when process_document has written a document, the content of the
\* output is the page texts in index order joined by "\n\n", for every page
\* count from 0 on and whatever the order in which the pages ended.
C2_WrittenInIndexOrder ==
    (InCall /\ status[cur] = "written") =>
        /\ sink[cur] = [exists |-> TRUE, content |-> ExpectedText(pages[cur])]
        /\ pages[cur] = 2 => sink[cur].content = "A\n\nB"
        /\ pages[cur] = 0 => sink[cur].content = ""

\* C2 witness: a written document of two pages or more whose first page
\* needed every attempt while its second page was read at once
C2_Witness ==
    /\ pc = "returned"
    /\ status[cur] = "written"
    /\ pages[cur] >= 2
    /\ max_workers > 1
    /\ task[1].attempts = max_retries
    /\ task[2].attempts = 1
    /\ sink[cur].content = ExpectedText(pages[cur])

\* C3: a page for which call_ocr_api returned a text got it from its last
\* request, number k+1 with 0 <= k < max_retries, after k failed requests
\* each followed by one sleep; the page holds exactly that text and its task
\* ended without raising.
C3_TextOfSuccessfulAttempt ==
    \A i \in DOMAIN task :
        task[i].ret = "text" =>
            /\ task[i].st = "done"
            /\ texts[i] = PageText(i)
            /\ task[i].attempts \in 1..max_retries
            /\ task[i].sleeps = task[i].attempts - 1

\* C3 witness: a page read by its last allowed request, after
\* max_retries - 1 failures
C3_Witness ==
    \E i \in DOMAIN task :
        /\ task[i].ret = "text"
        /\ task[i].attempts = max_retries
        /\ task[i].sleeps = max_retries - 1
        /\ texts[i] = PageText(i)

\* C4 (as claimed): call_ocr_api returns None for a page only after exactly
\* max_retries requests for it, whatever the endpoint answered.
C4_NoneOnlyAfterMaxRetries ==
    \A i \in DOMAIN task :
        task[i].ret = "none" => task[i].attempts = max_retries

\* C5: while the output of the current document exists and was not written
\* by this call of process_document, no OCR request has been issued in the
\* call and the document is only ever skipped.
C5_NoRequestWhenOutputExists ==
    (InCall /\ sink[cur].exists /\ pc # "write" /\ status[cur] # "written") =>
        /\ ocr_calls = 0
        /\ \A i \in DOMAIN task : task[i].attempts = 0
        /\ status[cur] = "skipped"

\* C5 witness: a document with pages, written by an earlier run, skipped
\* with no request issued
C5_Witness ==
    /\ pc = "returned"
    /\ status[cur] = "skipped"
    /\ pages[cur] >= 1
    /\ sink[cur].content = ExpectedText(pages[cur])
    /\ ocr_calls = 0

\* C6: at most max_workers page tasks of a document are between entering and
\* leaving call_ocr_api (waiting for a response or sleeping before a retry).
C6_InFlightBounded == Cardinality(InFlight) <= max_workers

\* C6 witness: a pool of 5 workers, all of them inside call_ocr_api, one of
\* them sleeping, while another page waits in the queue
C6_Witness ==
    /\ max_workers = MaxWorkersVision
    /\ Cardinality(InFlight) = max_workers
    /\ Pending # {}
    /\ \E i \in InFlight : task[i].st = "sleeping"

C8_SkippedHoldsFullText ==
    \A d \in Docs :
        status[d] = "skipped" => sink[d].content = ExpectedText(pages[d])

\* C9: when the output of the current document is about to be opened, is
\* open, or has been written by this call, every page of the document has
\* ended with a Text and no page task is in flight or queued.
C9_WriteAfterAllPages ==
    (InCall /\ (pc \in {"open", "write"} \/ status[cur] = "written")) =>
        /\ Len(task) = pages[cur]
        /\ \A i \in DOMAIN task :
            /\ task[i].st = "done"
            /\ task[i].ret = "text"
            /\ texts[i] = PageText(i)
        /\ InFlight = {}
        /\ Pending = {}

\* C9 witness: the output is open and empty, with the texts of two pages or
\* more in memory
C9_Witness ==
    /\ pc = "write"
    /\ pages[cur] >= 2
    /\ sink[cur] = [exists |-> TRUE, content |-> ""]
    /\ \A i \in DOMAIN task : task[i].st = "done"

\* C10: a document that ended failed in the previous run has no output when
\* the next run reaches it, is not skipped, gets fresh requests for its
\* pages, and is written with the full text when all its pages are read.
C10_FailedIsReprocessed ==
    \A d \in prev :
        /\ status[d] # "skipped"
        /\ status[d] = "pending" => ~sink[d].exists
        /\ (d = cur /\ pc = "returned") =>
            /\ ocr_calls >= 1
            /\ \A i \in DOMAIN task : task[i].ret = "text" => task[i].attempts >= 1
            /\ (\A i \in DOMAIN task : task[i].ret = "text") =>
                /\ status[d] = "written"
                /\ ocr_calls >= pages[d]
                /\ sink[d] = [exists |-> TRUE, content |-> ExpectedText(pages[d])]

\* C10 witness: a document that failed in the previous run and is written
\* by this one
C10_Witness ==
    /\ cur \in prev
    /\ pc = "returned"
    /\ status[cur] = "written"
    /\ pages[cur] >= 1
    /\ ocr_calls >= pages[cur]

\* the states in which process_document has ended for a document
Terminal == {"skipped", "written", "failed"}

\* C11: a failed document does not end the run: main() goes on to the next
\* folder, the documents before the current one are all in a terminal
\* state, main() ends only behind the last folder, and under fair
\* scheduling the run ends with every document skipped, written or failed.
C11_FailureNotFatal ==
    /\ [](/\ \A d \in Docs : d < cur => status[d] \in Terminal
          /\ pc = "exit" => cur = NumDocs + 1
          /\ (InCall /\ exc # 0 /\ pc = "returned") => status[cur] = "failed")
    /\ <>(pc = "exit" /\ \A d \in Docs : status[d] \in Terminal)

\* C11 witness: the first document failed and main() is processing the
\* second one
C11_Witness ==
    /\ NumDocs >= 2
    /\ cur = 2
    /\ status[1] = "failed"
    /\ status[2] = "processing"
    /\ InFlight # {}

\* the process is killed in this step
Killed == cur \in Docs /\ status'[cur] = "interrupted"

\* C12: once a page of the document has raised after its retries, no step of
\* the program interrupts a sibling task that is in flight: it stays in
\* flight or ends with its own result (its own text in its own slot, or its
\* own failure), its count of attempts never goes back, and when
\* process_document returns every such task has ended and the document is
\* failed
C12_InFlightNotInterrupted ==
    /\ [][(RaisedPages # {} /\ ~Killed) =>
            \A j \in InFlight :
                /\ j \in DOMAIN task'
                /\ task'[j].st \in {"request", "sleeping", "done", "raised"}
                /\ task'[j].attempts >= task[j].attempts
                /\ task'[j].sleeps >= task[j].sleeps
                /\ task'[j].st = "done" => texts'[j] = PageText(j)]_vars
    /\ []((pc = "returned" /\ RaisedPages # {}) =>
            /\ status[cur] = "failed"
            /\ \A j \in DOMAIN task : task[j].st \in {"done", "raised", "cancelled"})

\* page 1 has used up its retries and its exception has reached
\* process_document while page 2 is on a later attempt of its own
C12_Witness ==
    /\ pc = "shutdown"
    /\ exc # 0
    /\ task[exc].st = "raised"
    /\ task[exc].attempts = max_retries
    /\ \E j \in InFlight : j # exc /\ task[j].attempts >= 2

\* the main thread is past the with block of process_document
PastPool == pc \in {"open", "write", "returned"}

\* C13: process_document is past its pool, and so returns with success or
\* with failure, only when no task of the document is queued or in flight;
\* from then on no request of the document is issued and no task of it
\* changes, until main drops them with the call
C13_ReturnsWhenPoolIdle ==
    /\ [](PastPool => (InFlight = {} /\ Pending = {}))
    /\ [][PastPool =>
            \/ ocr_calls' = ocr_calls /\ task' = task /\ texts' = texts
            \/ ocr_calls' = 0 /\ task' = <<>> /\ texts' = <<>>]_vars

\* process_document has returned with a failure after it waited for a later
\* page that went through all its attempts
C13_Witness ==
    /\ pc = "returned"
    /\ exc # 0
    /\ status[cur] = "failed"
    /\ \E j \in DOMAIN task :
        j > exc /\ task[j].st \in {"done", "raised"} /\ task[j].attempts = max_retries

\* C14: the exception process_document reports is the one of the failed page
\* with the lowest index: the reported page has raised, every page before
\* it has ended with its text and no other failed page has a lower index,
\* whichever of the failures came first in time
C14_LowestFailedPageReported ==
    (exc # 0) =>
        /\ pc \in {"shutdown", "returned"}
        /\ exc \in RaisedPages
        /\ \A j \in RaisedPages : exc <= j
        /\ \A j \in 1..(exc - 1) : task[j].st = "done"

\* two pages have failed after all their attempts and the first is reported
C14_Witness ==
    /\ pc = "returned"
    /\ exc # 0
    /\ \E j \in RaisedPages : j > exc /\ task[j].attempts = max_retries
    /\ task[exc].attempts = max_retries

Min(a, b) == IF a <= b THEN a ELSE b

\* the attempts of an ended task that gave no text: all of them, or all but
\* the last when the task ended with a text
FailedAttempts(t) == IF t.ret = "text" THEN t.attempts - 1 ELSE t.attempts

\* C15: a sleep follows a failed attempt exactly when a further attempt
\* remains: no task sleeps before its first request, a sleeping task has a
\* request left, and a page that ended after f failed attempts has slept
\* min(f, max_retries - 1) times
C15_SleepIffAttemptRemains ==
    \A i \in DOMAIN task :
        /\ task[i].attempts = 0 => task[i].sleeps = 0
        /\ task[i].st = "sleeping" => task[i].attempts < max_retries
        /\ task[i].st \in {"done", "raised"} =>
            task[i].sleeps = Min(FailedAttempts(task[i]), max_retries - 1)

\* C16: no error of one attempt leaves call_ocr_api: after a transport
\* error, a timeout, an error status or a payload that cannot be read the
\* loop sleeps and retries while an attempt remains and returns None after
\* the last; a task that waits to retry has an attempt left, and ocr_page
\* ends only on a value call_ocr_api returned, done on a text and raised on
\* None
C16_AttemptErrorsNotSurfaced ==
    /\ \A a \in 1..max_retries, e \in Errors :
        AfterAttempt(a, e) = IF a < max_retries THEN "sleep" ELSE "return_none"
    /\ \A i \in DOMAIN task :
        /\ task[i].ret \in {"", "text", "none"}
        /\ task[i].st = "sleeping" => task[i].attempts < max_retries
        /\ task[i].st \in {"request", "sleeping"} => task[i].ret = ""
        /\ task[i].st = "done" <=> task[i].ret = "text"
        /\ task[i].st = "raised" <=> task[i].ret = "none"

\* every attempt of a page met an error: the caller got None after the last
C16_Witness ==
    \E i \in DOMAIN task :
        /\ task[i].st = "raised"
        /\ task[i].ret = "none"
        /\ task[i].attempts = max_retries
        /\ task[i].sleeps = max_retries - 1

\* the steps the state of one document can take within a run
Paths ==
    {<<"pending", "skipped">>, <<"pending", "processing">>,
     <<"processing", "written">>, <<"processing", "failed">>}

\* C17: in a run that is not killed the state of every document changes only
\* along pending -> skipped, pending -> processing -> written or
\* pending -> processing -> failed, so a terminal state is never left; the
\* output file of a document is touched only while that document is the one
\* in processing and gets its content only in the step that ends it as
\* written, hence at most once; and every document ends in a terminal state
C17_OnePathPerDocument ==
    /\ [][\A d \in Docs :
            /\ status'[d] # status[d] => <<status[d], status'[d]>> \in Paths
            /\ sink'[d] # sink[d] => (d = cur /\ status[d] = "processing")
            /\ sink'[d].content # sink[d].content => status'[d] = "written"
            /\ (status'[d] = "written" /\ status[d] # "written") =>
                (sink'[d].exists /\ sink'[d].content = Assembled)]_vars
    /\ <>[](\A d \in Docs : status[d] \in Terminal)

\* the run is over: one document was written and another failed
C17_Witness ==
    /\ pc = "exit"
    /\ \E d \in Docs : status[d] = "written" /\ pages[d] = MaxPages
    /\ \E d \in Docs : status[d] = "failed"

\* C18: the documents are taken one at a time in the order of the listing:
\* a task is queued or in flight only while its document is the one main is
\* at and that document is in processing, so all tasks in flight are of one
\* document; and when a request of the current call has been issued, every
\* document before it in the listing is in a terminal state and none after
\* it has been started
C18_OneDocumentAtATime ==
    /\ (InFlight # {} \/ Pending # {}) =>
        (cur \in Docs /\ Working /\ status[cur] = "processing")
    /\ ocr_calls > 0 =>
        /\ cur \in Docs
        /\ status[cur] \in {"processing", "written", "failed"}
        /\ \A d \in 1..(cur - 1) : status[d] \in Terminal
        /\ \A d \in (cur + 1)..NumDocs : status[d] = "pending"
    /\ \A d \in Docs : status[d] # "pending" =>
        \A e \in 1..(d - 1) : status[e] # "pending"

\* the first document is written, the second has requests in flight
C18_Witness ==
    /\ cur = 2
    /\ status[1] = "written"
    /\ pages[1] > 0
    /\ Cardinality(InFlight) = pages[2]
    /\ pages[2] = MaxPages

\* C19: with a pool of one worker (ocr_vision_for_graph) at most one page is
\* in flight, and a page has had its first request only when every page
\* before it has ended, after all its retries and sleeps: the requests go
\* out in page order, one page after the other
C19_SequentialWithOneWorker ==
    (max_workers = MaxWorkersGraph) =>
        /\ Cardinality(InFlight) <= 1
        /\ \A j \in DOMAIN task : task[j].attempts >= 1 =>
            \A i \in 1..(j - 1) : task[i].st \in {"done", "raised"}

\* one worker: page 2 is in its first request after page 1 got its text at
\* its last attempt
C19_Witness ==
    /\ max_workers = MaxWorkersGraph
    /\ Len(task) >= 2
    /\ task[1].st = "done"
    /\ task[1].attempts = max_retries
    /\ task[1].sleeps = max_retries - 1
    /\ task[2].st = "request"
    /\ task[2].attempts = 1

\* C20: within one call of process_document a slot texts[i] changes at most
\* once, from empty to the text of page i, in the step in which the task of
\* page i ends its request with that text, and that step leaves every other
\* slot alone; so a slot that is filled holds its own page's text and its
\* task is done, and no two tasks write the same slot
C20_SlotWrittenOnceByOwnTask ==
    /\ [](\A i \in DOMAIN texts : texts[i] # "" =>
            (texts[i] = PageText(i) /\ task[i].st = "done"))
    /\ [][\A i \in (DOMAIN texts) \cap (DOMAIN texts') :
            texts'[i] # texts[i] =>
                /\ texts[i] = ""
                /\ texts'[i] = PageText(i)
                /\ task[i].st = "request"
                /\ task'[i].st = "done"
                /\ \A j \in DOMAIN texts : j # i => texts'[j] = texts[j]]_vars

\* the slot of page 2 holds its text while page 1 is still in a request
C20_Witness ==
    /\ Len(texts) >= 2
    /\ texts[2] = PageText(2)
    /\ texts[1] = ""
    /\ task[1].st = "request"
    /\ task[1].attempts >= 2

\* what process_document must end in when page after page is read alone
PlanFails(d) ==
    \E i \in 1..pages[d] : CallOcrApi(script.plan[d][i], 1) = "return_none"

\* C21: with the answer to every attempt of every page fixed, the end of
\* process_document is the same in every interleaving of the threads: it is
\* failed with no output file exactly when some page's answers leave it
\* without a text, and otherwise written with the pages' texts in page order
C21_OutcomeIndependentOfInterleaving ==
    (cur \in Docs /\ pc = "returned" /\ status[cur] \in {"written", "failed"}) =>
        IF PlanFails(cur)
        THEN status[cur] = "failed" /\ sink[cur] = NoFile
        ELSE /\ status[cur] = "written"
             /\ sink[cur] = [exists |-> TRUE,
                              content |-> Join([i \in 1..pages[cur] |-> PageText(i)])]

\* a document of MaxPages pages is written although its first page needed
\* all its attempts and its last page answered at once
C21_Witness ==
    /\ script.on
    /\ max_workers = MaxWorkersVision
    /\ cur = 1
    /\ pc = "returned"
    /\ status[1] = "written"
    /\ pages[1] = MaxPages
    /\ task[1].attempts = max_retries
    /\ task[MaxPages].attempts = 1

\* C26: the step that skips a document leaves every output file as it is,
\* the existing one included whatever it holds, and issues no request; and
\* as long as the document counts as skipped its file does not change
C26_SkipLeavesOutputs ==
    [][\A d \in Docs :
        /\ (status'[d] = "skipped" /\ status[d] # "skipped") =>
            /\ sink[d].exists
            /\ sink' = sink
            /\ ocr_calls' = ocr_calls
            /\ task' = task
        /\ status[d] = "skipped" => sink'[d] = sink[d]]_vars

\* two documents were skipped: the output of one holds its text, the
\* output of the other, a document with pages, is empty
C26_Witness ==
    /\ pc = "returned"
    /\ \E d \in Docs :
        status[d] = "skipped" /\ pages[d] > 0 /\ sink[d].content = ""
    /\ \E d \in Docs :
        status[d] = "skipped" /\ pages[d] > 0 /\ sink[d].content # ""

\* the requests and the sleeps of the tasks 1..n of the current call
RECURSIVE SumAttempts(_)
SumAttempts(n) == IF n = 0 THEN 0 ELSE task[n].attempts + SumAttempts(n - 1)

RECURSIVE SumSleeps(_)
SumSleeps(n) == IF n = 0 THEN 0 ELSE task[n].sleeps + SumSleeps(n - 1)

\* C27: when every request returns or times out and the threads are
\* scheduled fairly, a call of process_document for a document of P pages
\* that has started reaches its return in a terminal state, and at every
\* moment of it at most P * max_retries requests have been issued and at
\* most P * (max_retries - 1) sleeps begun
C27_TerminatesWithinBudget ==
    /\ [](InCall =>
            /\ ocr_calls = SumAttempts(Len(task))
            /\ ocr_calls <= pages[cur] * max_retries
            /\ SumSleeps(Len(task)) <= pages[cur] * (max_retries - 1))
    /\ (pc = "main") ~> (pc = "returned" /\ status[cur] \in Terminal)

\* a call has returned after it used the whole budget of its pages
C27_Witness ==
    /\ InCall
    /\ pc = "returned"
    /\ pages[cur] >= 1
    /\ ocr_calls = pages[cur] * max_retries
    /\ SumSleeps(Len(task)) = pages[cur] * (max_retries - 1)

\* the file open(output_file, "w") leaves when nothing is written to it
EmptyOutput == [exists |-> TRUE, content |-> ""]

\* C28: a call for a folder without page images issues no request and ends
\* written with an empty output, never failed; and a document whose output
\* is that empty file is only ever skipped by a later call, its file left as
\* it is, also when its folder has pages by then
C28_EmptyDocumentWrittenThenSkipped ==
    /\ [](\A d \in Docs :
            /\ (d = cur /\ InCall /\ pages[d] = 0) => ocr_calls = 0
            /\ status[d] = "failed" => pages[d] > 0
            /\ (status[d] = "written" /\ pages[d] = 0) => sink[d] = EmptyOutput)
    /\ [][\A d \in Docs :
            (sink[d] = EmptyOutput /\ status[d] \in {"pending", "skipped"}) =>
                /\ sink'[d] = sink[d]
                /\ status'[d] \in {"pending", "skipped"}
                /\ (d = cur /\ InCall) => ocr_calls' = 0]_vars

\* a later run skips a document whose folder holds MaxPages pages by now and
\* whose output is the empty file written when the folder had none
C28_Witness ==
    /\ pc = "returned"
    /\ status[cur] = "skipped"
    /\ pages[cur] = MaxPages
    /\ sink[cur] = EmptyOutput
    /\ ocr_calls = 0

\* process_pdf has handed its pages to the pool and the client has its answer
PdfAnswered == s_pc = "responded" /\ IsPdf(s_ct) /\ Len(s_task) > 0

\* C22: when the text of every page of a PDF of N pages was extracted, the
\* server answers 200 with exactly N documents, the k-th of them for page k
\* with the text of page k, in whatever order the futures ended and were
\* collected
C22_AllPagesInPageOrder ==
    (PdfAnswered /\ \A p \in DOMAIN s_task : s_task[p].st = "done") =>
        /\ response.code = 200
        /\ Len(response.documents) = s_n
        /\ \A k \in 1..s_n :
            /\ response.documents[k].page = k
            /\ response.documents[k].page_content = PageText(k)

\* a PDF of more pages than the pool has workers is answered in page order
\* although the results were collected in another order and page 1 needed
\* all its attempts
C22_Witness ==
    /\ PdfAnswered
    /\ response.code = 200
    /\ s_n = MaxWorkersServer + 1
    /\ documents # response.documents
    /\ documents[1].page = s_n
    /\ s_task[1].attempts = OCR_MAX_RETRIES

\* C23: the client of a PDF request has its answer only when no page task of
\* the PDF is queued or in flight, and when a page of the PDF has failed that
\* answer is the error 500 without any document, also when other pages were
\* extracted and collected before
C23_FailedPageGives500 ==
    /\ (response.code # 0) => s_pc = "responded"
    /\ PdfAnswered =>
        /\ SInFlight = {} /\ SPending = {}
        /\ (\E p \in DOMAIN s_task : s_task[p].st = "raised") =>
            /\ response.code = 500
            /\ response.documents = <<>>
            /\ response.page # 0

\* page 1 of a PDF of more pages than the pool has workers failed after all
\* its attempts; the other pages were extracted, some were collected, and
\* the answer is 500
C23_Witness ==
    /\ PdfAnswered
    /\ s_n = MaxWorkersServer + 1
    /\ response.code = 500
    /\ s_task[1].st = "raised"
    /\ s_task[1].attempts = OCR_MAX_RETRIES
    /\ \A p \in 2..s_n : s_task[p].st = "done"
    /\ Len(documents) >= 1

\* the pages of the PDF whose process_image has raised
SRaisedPages == {p \in DOMAIN s_task : s_task[p].st = "raised"}

\* C24: the page named in the error 500 of a PDF request is the failed page
\* with the lowest page number, in whatever order the page tasks ended
C24_LowestFailedPageNamed ==
    (PdfAnswered /\ response.code = 500) =>
        /\ response.page \in SRaisedPages
        /\ \A p \in SRaisedPages : response.page <= p

\* the texts pdf_to_images_and_ocr can return for PDF d
TextsOf(d) ==
    {JoinLines([n \in 1..pages[d] |-> PageEntry(n, f[n])]) :
        f \in [1..pages[d] -> RolmOutcomes]}

\* those of them in which the OCR of a page has failed
PartialTextsOf(d) ==
    {JoinLines([n \in 1..pages[d] |-> PageEntry(n, f[n])]) :
        f \in {g \in [1..pages[d] -> RolmOutcomes] :
                  \E n \in 1..pages[d] : g[n] = "error"}}

\* the OCR of a page of the PDF in work has failed
PageFailed ==
    /\ b_pc \in {"ocr", "open", "write", "move", "next"}
    /\ \E n \in DOMAIN all_text : all_text[n] = PageEntry(n, "error")

\* C25: a PDF of which the OCR of a page failed gets no output: no text
\* file holds a text with a failed page, and the PDF stays in input_docs
C25_FailedPageLeavesNoOutput ==
    /\ \A d \in Docs : b_txt[d].exists => b_txt[d].content \notin PartialTextsOf(d)
    /\ PageFailed => (ThisPdf \in b_in /\ ThisPdf \notin b_out)

\* C29: a request of PUT /process is rejected without any OCR request, and
\* the client gets the code as it was raised: 400 for an empty body, 413 for
\* a body above MAX_FILE_SIZE, 400 for a content type that is neither PDF
\* nor PNG or JPEG, and for a PDF 422 when it gives no page and 400 when it
\* gives more than MAX_PAGES pages
C29_RejectionsKeepTheirCode ==
    (s_pc = "responded") =>
        /\ s_len = 0 => (response.code = 400 /\ s_calls = 0)
        /\ s_len > MAX_FILE_SIZE => (response.code = 413 /\ s_calls = 0)
        /\ (s_len \in 1..MAX_FILE_SIZE /\ ~IsPdf(s_ct) /\ ~IsImage(s_ct)) =>
            (response.code = 400 /\ s_calls = 0)
        /\ (s_len \in 1..MAX_FILE_SIZE /\ IsPdf(s_ct) /\ s_n = 0) =>
            (response.code = 422 /\ s_calls = 0)
        /\ (s_len \in 1..MAX_FILE_SIZE /\ IsPdf(s_ct) /\ s_n > MAX_PAGES) =>
            (response.code = 400 /\ s_calls = 0)

\* a PDF of the largest size allowed that gives one page too many is
\* answered 400 without a request to the OCR endpoint
C29_Witness ==
    /\ s_pc = "responded"
    /\ s_len = MAX_FILE_SIZE
    /\ IsPdf(s_ct)
    /\ s_n = MAX_PAGES + 1
    /\ response.code = 400
    /\ s_calls = 0

\* C30: a PDF in the output folder has its text file there, fully written;
\* the PDF in work is in input_docs until its move, so no OCR request is
\* sent for a PDF that is in the output folder already; and a text file that
\* cannot be opened or written leaves the PDF in input_docs and the loop at
\* the next PDF
C30_MovedOnlyAfterTextWritten ==
    /\ [](\A d \in b_out :
            /\ d \notin b_in
            /\ b_txt[d].exists
            /\ b_txt[d].content \in TextsOf(d))
    /\ []((b_pc \in {"pdf", "ocr", "open", "write", "move"}) =>
            (ThisPdf \in b_in /\ ThisPdf \notin b_out))
    /\ [][\A d \in b_out : d \in b_calls' => d \in b_calls]_vars
    /\ [][(b_pc \in {"open", "write"} /\ b_pc' \notin {"write", "move", "killed"}) =>
            /\ b_pc' = "next"
            /\ ThisPdf \in b_in'
            /\ ThisPdf \notin b_out'
            /\ pdf_files' = pdf_files
            /\ b_i' = b_i]_vars

\* a later run, which has sent no OCR request yet, lists the PDF that stayed
\* in input_docs when its text could not be written, while the PDF the run
\* before completed is in the output folder with its text
C30_Witness ==
    /\ b_pc = "pdf"
    /\ b_calls = {}
    /\ b_out = {1}
    /\ b_in = {2}
    /\ pages[1] = MaxPages
    /\ b_txt[1].exists
    /\ b_txt[1].content \in TextsOf(1)
    /\ pages[2] = 1
    /\ b_txt[2].exists
    /\ b_txt[2].content = ""

\* the first counter whose numbered name is free in the output folder
FirstFree(out, name) ==
    CHOOSE k \in 1..Len(Digits) :
        /\ VariantName(name, k) \notin DOMAIN out
        /\ \A j \in 1..(k - 1) : VariantName(name, j) \in DOMAIN out

\* the existing files a colliding source is compared with: the file of its
\* own name and the numbered ones before the first free name
ExaminedNames(out, name) ==
    {FileName(name)} \cup {VariantName(name, j) : j \in 1..(FirstFree(out, name) - 1)}

\* the loop is at a file that can be read and whose name exists in the
\* output folder
AtCollision ==
    /\ f_pc = "walk"
    /\ f_i \in Walk
    /\ Src # NoSrc
    /\ Src.readable
    /\ FileName(Src.name) \in DOMAIN f_out

\* C31: no step of copy_files removes or changes a file of the output
\* folder; a readable source whose name exists there is skipped when its MD5
\* is that of one of the examined files (the file of its name and the
\* numbered ones before the first free name), and is otherwise copied, as
\* the only new file, under the first free name base_n.ext
C31_NeverOverwrites ==
    /\ [][\A n \in DOMAIN f_out : n \in DOMAIN f_out' /\ f_out'[n] = f_out[n]]_vars
    /\ [][AtCollision =>
            IF \E n \in ExaminedNames(f_out, Src.name) :
                /\ f_out[n].readable
                /\ Digest(f_out[n].content) = Digest(Src.content)
            THEN /\ f_out' = f_out
                 /\ copied_count' = copied_count
                 /\ skipped_duplicates' = skipped_duplicates + 1
            ELSE /\ DOMAIN f_out' =
                    DOMAIN f_out \cup {VariantName(Src.name, FirstFree(f_out, Src.name))}
                 /\ f_out'[VariantName(Src.name, FirstFree(f_out, Src.name))].content
                    = Src.content
                 /\ copied_count' = copied_count + 1]_vars

\* the first run found a.txt and a_1.txt, took a source a.txt that differs
\* from both and copied it as a_2.txt, leaving the two as they were
C31_Witness ==
    /\ ~f_later
    /\ f_pc = "walk"
    /\ DOMAIN f_out0 = {"a.txt", "a_1.txt"}
    /\ DOMAIN f_out = {"a.txt", "a_1.txt", "a_2.txt"}
    /\ f_out["a.txt"] = f_out0["a.txt"]
    /\ f_out["a_1.txt"] = f_out0["a_1.txt"]
    /\ f_out["a_2.txt"].content = "y"
    /\ copied_count = 1
    /\ conflicts_resolved = 1

\* C32: a later run of copy_files with the same arguments, on the unchanged
\* input folder and the output folder the run before left, copies no file
\* and leaves the output folder as it found it
C32_SecondRunCopiesNothing ==
    (f_later /\ f_pc \in {"walk", "done", "failed"}) =>
        /\ f_out = f_out0
        /\ copied_count = 0

\* a later recursive run has ended and has skipped both files named a.txt
\* of two subdirectories, whose contents differ: the first run, on an empty
\* output folder, had copied one as a.txt and the other as a_1.txt
C32_Witness ==
    /\ f_later
    /\ f_pc = "done"
    /\ recursive
    /\ f_in # NoFolder
    /\ f_in[0] = NoSrc
    /\ f_in[1].name.stem = "a" /\ f_in[1].content = "y"
    /\ f_in[2].name.stem = "a" /\ f_in[2].content = "w"
    /\ DOMAIN f_out = {"a.txt", "a_1.txt"}
    /\ f_out["a.txt"].content = "y"
    /\ f_out["a_1.txt"].content = "w"
    /\ copied_count = 0
    /\ skipped_duplicates = 2

TypeOK ==
    /\ max_workers \in PoolSizes
    /\ cur \in 1..(NumDocs + 1)
    /\ pc \in {"main", "submit", "collect", "shutdown", "open", "write",
               "returned", "exit"}
    /\ Len(texts) = Len(task)
    /\ \A i \in DOMAIN task :
        /\ task[i].attempts \in 0..max_retries
        /\ task[i].sleeps \in 0..max_retries
====
